---- MODULE Spec2Model ----
(***************************************************************************)
(* Model of oneaway.py: the typo generators dropped_letter,               *)
(* swapped_letter, swapped_casing and proximity_typo, the combinator      *)
(* multiple and its presets common and mix.                               *)
(*                                                                         *)
(* A string is a sequence of one-character strings.  A generator is a     *)
(* suspended frame (its loop position, its seen set, the value it is      *)
(* suspended on); one action is one next() of the caller on the generator *)
(* object, which runs the generator body up to its next yield, its        *)
(* normal end or the ValueError it raises.                                *)
(***************************************************************************)
EXTENDS Integers, Sequences, FiniteSets, TLC

VARIABLES value, fn, handlers, gen, mul, out, pc, err, last

vars == <<value, fn, handlers, gen, mul, out, pc, err, last>>

\* ------------------------------------------------------------------ bounds
MaxLen == 3
MaxHandlers == 2

\* The characters tokens are drawn from: two lowercase letters that are
\* horizontal neighbours, an uppercase letter, an uncased character and a
\* whitespace character.
Alphabet == {"a", "s", "A", "1", " "}

RECURSIVE BoundedSeq(_, _)
BoundedSeq(S, n) ==
    IF n = 0 THEN {<<>>}
    ELSE LET shorter == BoundedSeq(S, n - 1)
         IN  shorter \cup {Append(t, c) : t \in {u \in shorter : Len(u) = n - 1}, c \in S}

cat == <<"c", "a", "t">>
ca_t == <<"c", "a", " ", "t">>

Tokens == BoundedSeq(Alphabet, MaxLen) \cup {cat, ca_t}

\* ------------------------------------------------- str methods of Python
LowerLetters ==
    <<"a", "b", "c", "d", "e", "f", "g", "h", "i", "j", "k", "l", "m",
      "n", "o", "p", "q", "r", "s", "t", "u", "v", "w", "x", "y", "z">>

UpperLetters ==
    <<"A", "B", "C", "D", "E", "F", "G", "H", "I", "J", "K", "L", "M",
      "N", "O", "P", "Q", "R", "S", "T", "U", "V", "W", "X", "Y", "Z">>

Whitespace == {" "}

Range(s) == {s[i] : i \in 1..Len(s)}

IndexIn(c, s) == CHOOSE i \in 1..Len(s) : s[i] = c

isspace(c) == c \in Whitespace

islower(c) == c \in Range(LowerLetters)

isupper(c) == c \in Range(UpperLetters)

upper(c) == IF islower(c) THEN UpperLetters[IndexIn(c, LowerLetters)] ELSE c

lower(c) == IF isupper(c) THEN LowerLetters[IndexIn(c, UpperLetters)] ELSE c

\* value[lo:hi] with 0 <= lo
slice(s, lo, hi) ==
    LET h == IF hi > Len(s) THEN Len(s) ELSE hi
    IN  IF lo >= h THEN <<>> ELSE SubSeq(s, lo + 1, h)

\* value.partition(sep) for a one-character sep: split at the FIRST
\* occurrence of sep.
partition(s, sep) ==
    IF sep \in Range(s)
    THEN LET idx == CHOOSE i \in 1..Len(s) :
                        s[i] = sep /\ \A k \in 1..(i - 1) : s[k] # sep
         IN  <<slice(s, 0, idx - 1), <<sep>>, slice(s, idx, Len(s))>>
    ELSE <<s, <<>>, <<>>>>

\* ----------------------------------------------------------- Proximities
QWERTY_HORIZONTAL ==
    ("q" :> <<"w">>) @@ ("w" :> <<"q", "e">>) @@ ("e" :> <<"w", "r">>) @@
    ("r" :> <<"e", "t">>) @@ ("t" :> <<"r", "y">>) @@ ("y" :> <<"t", "u">>) @@
    ("u" :> <<"y", "i">>) @@ ("i" :> <<"u", "o">>) @@ ("o" :> <<"i", "p">>) @@
    ("p" :> <<"o">>) @@
    ("a" :> <<"s">>) @@ ("s" :> <<"a", "d">>) @@ ("d" :> <<"s", "f">>) @@
    ("f" :> <<"d", "g">>) @@ ("g" :> <<"f", "h">>) @@ ("h" :> <<"g", "j">>) @@
    ("j" :> <<"h", "k">>) @@ ("k" :> <<"j", "l">>) @@ ("l" :> <<"k">>) @@
    ("z" :> <<"x">>) @@ ("x" :> <<"z", "c">>) @@ ("c" :> <<"x", "v">>) @@
    ("v" :> <<"c", "b">>) @@ ("b" :> <<"v", "n">>) @@ ("n" :> <<"b", "m">>) @@
    ("m" :> <<"n">>)

QWERTY_VERTICAL ==
    ("q" :> <<"a">>) @@ ("w" :> <<"a", "s">>) @@ ("e" :> <<"s", "d">>) @@
    ("r" :> <<"d", "f">>) @@ ("t" :> <<"f", "g">>) @@ ("y" :> <<"g", "h">>) @@
    ("u" :> <<"h", "j">>) @@ ("i" :> <<"j", "k">>) @@ ("o" :> <<"k", "l">>) @@
    ("p" :> <<"l">>) @@
    ("a" :> <<"q", "w", "z">>) @@ ("s" :> <<"w", "e", "z", "x">>) @@
    ("d" :> <<"e", "r", "x", "c">>) @@ ("f" :> <<"r", "t", "c", "v">>) @@
    ("g" :> <<"t", "y", "v", "b">>) @@ ("h" :> <<"y", "u", "b", "n">>) @@
    ("j" :> <<"u", "i", "n", "m">>) @@ ("k" :> <<"i", "o", "m">>) @@
    ("l" :> <<"o", "p">>) @@
    ("z" :> <<"a", "s">>) @@ ("x" :> <<"s", "d">>) @@ ("c" :> <<"d", "f">>) @@
    ("v" :> <<"f", "g">>) @@ ("b" :> <<"g", "h">>) @@ ("n" :> <<"h", "j">>) @@
    ("m" :> <<"j", "k">>)

\* ------------------------------------------------------ generator frames
\* position: the loop variable (0-based, as in the source); j: the index of
\* the replacement letter inside proximity_typo's inner loop; atYield: the
\* frame is suspended on `yield new_value`, its seen.add still to run.
G0 == [position |-> 0, j |-> 1, seen |-> {}, atYield |-> FALSE, new_value |-> <<>>]

Yield(g, v) ==
    [g |-> [g EXCEPT !.atYield = TRUE, !.new_value = v],
     res |-> "yield", err |-> "none", val |-> v]

Return(g) == [g |-> g, res |-> "stop", err |-> "none", val |-> <<>>]

Raise(g, e) == [g |-> g, res |-> "raise", err |-> e, val |-> <<>>]

\* resuming after `yield new_value`: seen.add(new_value)
Resumed(g) == [g EXCEPT !.seen = @ \cup {g.new_value}, !.atYield = FALSE]

\* ------------------------------------------------------- dropped_letter
\* the whole value validated up front instead of the current character
dropped_letter_invalid_eager(v, position) == \E i \in 1..Len(v) : isspace(v[i])

\* `if char.isspace()` for the character at the current position
dropped_letter_invalid(v, position) == isspace(v[position + 1])

\* after = value[position:], which keeps the character
dropped_letter_new_value_kept(v, position) ==
    slice(v, 0, position) \o slice(v, position, Len(v))

\* before, after = value[0:position], value[position + 1:]
dropped_letter_new_value(v, position) ==
    slice(v, 0, position) \o slice(v, position + 1, Len(v))

RECURSIVE dropped_letter(_, _)
dropped_letter(v, g) ==
    IF g.atYield
    THEN dropped_letter(v, [Resumed(g) EXCEPT !.position = @ + 1])
    ELSE IF g.position >= Len(v) THEN Return(g)
    ELSE IF dropped_letter_invalid(v, g.position) THEN Raise(g, "whitespace")
    ELSE LET new_value == dropped_letter_new_value(v, g.position)
         IN  IF new_value \notin g.seen
             THEN Yield(g, new_value)
             ELSE dropped_letter(v, [g EXCEPT !.position = @ + 1])

\* ------------------------------------------------------- swapped_letter
\* only thischar tested
swapped_letter_invalid_thischar(thischar, nextchar) == isspace(thischar)

\* `if thischar.isspace() or nextchar.isspace()`
swapped_letter_invalid(thischar, nextchar) == isspace(thischar) \/ isspace(nextchar)

swapped_letter_new_value(v, position) ==
    slice(v, 0, position) \o <<v[position + 2]>> \o <<v[position + 1]>>
        \o slice(v, position + 2, Len(v))

RECURSIVE swapped_letter(_, _)
swapped_letter(v, g) ==
    IF g.atYield
    THEN swapped_letter(v, [Resumed(g) EXCEPT !.position = @ + 1])
    ELSE IF g.position >= Len(v) THEN Return(g)
    \* value[position + 1] raises IndexError: break
    ELSE IF g.position + 1 >= Len(v) THEN Return(g)
    ELSE IF swapped_letter_invalid(v[g.position + 1], v[g.position + 2])
         THEN Raise(g, "whitespace")
    ELSE LET new_value == swapped_letter_new_value(v, g.position)
         IN  IF new_value \notin g.seen
             THEN Yield(g, new_value)
             ELSE swapped_letter(v, [g EXCEPT !.position = @ + 1])

\* ------------------------------------------------------- swapped_casing
RECURSIVE swapped_casing(_, _)
swapped_casing(v, g) ==
    IF g.atYield
    THEN swapped_casing(v, [Resumed(g) EXCEPT !.position = @ + 1])
    ELSE IF g.position >= Len(v) THEN Return(g)
    ELSE LET char == v[g.position + 1]
         IN  IF isspace(char) THEN Raise(g, "whitespace")
             ELSE LET parts == partition(v, char)
                      dropped == parts[2][1]
                  IN  IF ~islower(dropped) /\ ~isupper(dropped)
                      THEN Raise(g, "unsupported")
                      ELSE LET replacement == IF islower(dropped) THEN upper(dropped)
                                              ELSE lower(dropped)
                               new_value == parts[1] \o <<replacement>> \o parts[3]
                           IN  IF new_value \notin g.seen
                               THEN Yield(g, new_value)
                               ELSE swapped_casing(v, [g EXCEPT !.position = @ + 1])

\* ------------------------------------------------------- proximity_typo
RECURSIVE proximity_typo(_, _, _)
proximity_typo(v, g, layout) ==
    IF g.atYield
    THEN proximity_typo(v, [Resumed(g) EXCEPT !.j = @ + 1], layout)
    ELSE IF g.position >= Len(v) THEN Return(g)
    ELSE LET letter == v[g.position + 1]
             parts == partition(v, letter)
         IN  IF isspace(letter) THEN Raise(g, "whitespace")
             ELSE IF letter \notin DOMAIN layout THEN Raise(g, "unsupported")
             ELSE IF g.j > Len(layout[letter])
                  THEN proximity_typo(v, [g EXCEPT !.position = @ + 1, !.j = 1], layout)
             ELSE LET new_value == parts[1] \o <<layout[letter][g.j]>> \o parts[3]
                  IN  IF new_value \notin g.seen
                      THEN Yield(g, new_value)
                      ELSE proximity_typo(v, [g EXCEPT !.j = @ + 1], layout)

horizontal_proximity_typo(v, g) == proximity_typo(v, g, QWERTY_HORIZONTAL)

vertical_proximity_typo(v, g) == proximity_typo(v, g, QWERTY_VERTICAL)

\* ------------------------------------------------------------- multiple
Generators ==
    {"dropped_letter", "swapped_letter", "swapped_casing",
     "horizontal_proximity_typo", "vertical_proximity_typo"}

\* next() on the generator object made by handler(value)
handler_next(h, v, g) ==
    CASE h = "dropped_letter" -> dropped_letter(v, g)
      [] h = "swapped_letter" -> swapped_letter(v, g)
      [] h = "swapped_casing" -> swapped_casing(v, g)
      [] h = "horizontal_proximity_typo" -> horizontal_proximity_typo(v, g)
      [] h = "vertical_proximity_typo" -> vertical_proximity_typo(v, g)

\* hidx: how many handlers the outer loop has finished; seen: the set shared
\* by the whole call; atYield: suspended on `yield typo`.
M0 == [hidx |-> 0, seen |-> {}, atYield |-> FALSE, typo |-> <<>>]

\* the seen test dropped
multiple_unseen_always(typo, seen) == TRUE

\* `if typo not in seen`
multiple_unseen(typo, seen) == typo \notin seen

RECURSIVE multiple(_, _, _, _)

\* the error caught and the next handler run
multiple_on_error_swallowed(v, hs, m, r) ==
    multiple(v, hs, [m EXCEPT !.hidx = @ + 1], G0)

\* handler(value) raised inside `for typo in handler(value)`: nothing
\* catches it, multiple ends with the same error.
multiple_on_error(v, hs, m, r) ==
    [m |-> m, g |-> r.g, res |-> "raise", err |-> r.err, val |-> <<>>]

multiple(v, hs, m, g) ==
    IF m.atYield
    THEN multiple(v, hs, [m EXCEPT !.seen = @ \cup {m.typo}, !.atYield = FALSE], g)
    ELSE IF m.hidx >= Len(hs)
    THEN [m |-> m, g |-> g, res |-> "stop", err |-> "none", val |-> <<>>]
    ELSE LET r == handler_next(hs[m.hidx + 1], v, g)
         IN  CASE r.res = "raise" -> multiple_on_error(v, hs, m, r)
               [] r.res = "stop" -> multiple(v, hs, [m EXCEPT !.hidx = @ + 1], G0)
               [] r.res = "yield" ->
                    IF multiple_unseen(r.val, m.seen)
                    THEN [m |-> [m EXCEPT !.atYield = TRUE, !.typo = r.val],
                          g |-> r.g, res |-> "yield", err |-> "none", val |-> r.val]
                    ELSE multiple(v, hs, m, r.g)

\* swaps before drops
common_reordered == <<"swapped_letter", "dropped_letter", "horizontal_proximity_typo">>

common == <<"dropped_letter", "swapped_letter", "horizontal_proximity_typo">>

\* the horizontal layout left out
mix_without_horizontal == <<"dropped_letter", "swapped_letter", "vertical_proximity_typo">>

mix ==
    <<"dropped_letter", "swapped_letter", "horizontal_proximity_typo",
      "vertical_proximity_typo">>

\* ------------------------------------------------------------ the calls
Calls == Generators \cup {"multiple"}

HandlerLists == BoundedSeq(Generators, MaxHandlers) \cup {common, mix}

Init ==
    /\ value \in Tokens
    /\ fn \in Calls
    /\ handlers \in IF fn = "multiple" THEN HandlerLists ELSE {<<>>}
    /\ gen = G0
    /\ mul = M0
    /\ out = <<>>
    /\ pc = "suspended"
    /\ err = "none"
    /\ last = "none"

\* what the caller of next() observes from the result r of running the body
Observe(r) ==
    /\ out' = IF r.res = "yield" THEN Append(out, r.val) ELSE out
    /\ pc' = CASE r.res = "yield" -> "suspended"
               [] r.res = "stop" -> "done"
               [] r.res = "raise" -> "raised"
    /\ err' = r.err
    /\ last' = CASE r.res = "yield" -> "yield"
                 [] r.res = "stop" -> "StopIteration"
                 [] r.res = "raise" -> "ValueError"

NextGenerator(name) ==
    /\ fn = name
    /\ pc = "suspended"
    /\ LET r == handler_next(name, value, gen)
       IN  /\ gen' = r.g
           /\ Observe(r)
    /\ UNCHANGED <<value, fn, handlers, mul>>

NextDroppedLetter == NextGenerator("dropped_letter")

NextSwappedLetter == NextGenerator("swapped_letter")

NextSwappedCasing == NextGenerator("swapped_casing")

NextProximityTypo ==
    \E name \in {"horizontal_proximity_typo", "vertical_proximity_typo"} :
        NextGenerator(name)

NextMultiple ==
    /\ fn = "multiple"
    /\ pc = "suspended"
    /\ LET r == multiple(value, handlers, mul, gen)
       IN  /\ gen' = r.g
           /\ mul' = r.m
           /\ Observe(r)
    /\ UNCHANGED <<value, fn, handlers>>

\* next() on a generator that has returned or raised: StopIteration, and
\* nothing more is produced.
NextFinished ==
    /\ pc \in {"done", "raised"}
    /\ last' = "StopIteration"
    /\ UNCHANGED <<value, fn, handlers, gen, mul, out, pc, err>>

Next ==
    \/ NextDroppedLetter
    \/ NextSwappedLetter
    \/ NextSwappedCasing
    \/ NextProximityTypo
    \/ NextMultiple
    \/ NextFinished

Spec == Init /\ [][Next]_vars

TypeOK ==
    /\ fn \in Calls
    /\ pc \in {"suspended", "done", "raised"}
    /\ err \in {"none", "whitespace", "unsupported"}
    /\ last \in {"none", "yield", "StopIteration", "ValueError"}
    /\ (pc = "raised") <=> (err # "none")

\* ---------------------------------------------- vocabulary of the claims
\* list(handler(value)): the generator drained from a fresh frame
RECURSIVE Drain(_, _, _, _)
Drain(h, v, g, acc) ==
    LET r == handler_next(h, v, g)
    IN  IF r.res = "yield" THEN Drain(h, v, r.g, Append(acc, r.val))
        ELSE [out |-> acc, err |-> r.err]

Consume(h, v) == Drain(h, v, G0, <<>>)

\* list(multiple(value, handlers)) from fresh frames
RECURSIVE DrainMultiple(_, _, _, _, _)
DrainMultiple(v, hs, m, g, acc) ==
    LET r == multiple(v, hs, m, g)
    IN  IF r.res = "yield" THEN DrainMultiple(v, hs, r.m, r.g, Append(acc, r.val))
        ELSE [out |-> acc, err |-> r.err]

ConsumeMultiple(v, hs) == DrainMultiple(v, hs, M0, G0, <<>>)

\* s with every element after its first occurrence removed
RECURSIVE Dedup(_)
Dedup(s) ==
    IF s = <<>> THEN <<>>
    ELSE LET front == Dedup(SubSeq(s, 1, Len(s) - 1))
             x == s[Len(s)]
         IN  IF x \in Range(front) THEN front ELSE Append(front, x)

IsPrefix(s, t) == Len(s) <= Len(t) /\ \A i \in 1..Len(s) : s[i] = t[i]

Distinct(s) == \A i, k \in 1..Len(s) : i # k => s[i] # s[k]

HasSpace(v) == \E i \in 1..Len(v) : v[i] \in Whitespace

\* the outputs of the first n handlers of hs, one after the other
RECURSIVE Concatenated(_, _, _)
Concatenated(v, hs, n) ==
    IF n = 0 THEN <<>>
    ELSE Concatenated(v, hs, n - 1) \o Consume(hs[n], v).out

\* the handlers of hs drained one after the other from the k-th on, up to
\* and including the first that raises: its index (0 if none raises), its
\* error, and everything produced, appended to acc
RECURSIVE UpToFirstRaising(_, _, _, _)
UpToFirstRaising(v, hs, k, acc) ==
    IF k > Len(hs) THEN [i |-> 0, err |-> "none", out |-> acc]
    ELSE LET c == Consume(hs[k], v)
         IN  IF c.err # "none" THEN [i |-> k, err |-> c.err, out |-> acc \o c.out]
             ELSE UpToFirstRaising(v, hs, k + 1, acc \o c.out)

\* v without its i-th character (1-based)
RemoveAt(v, i) == [k \in 1..(Len(v) - 1) |-> IF k < i THEN v[k] ELSE v[k + 1]]

\* v with its i-th character (1-based) replaced by c
ReplaceAt(v, i, c) == [k \in 1..Len(v) |-> IF k = i THEN c ELSE v[k]]

Differences(v, w) == {k \in 1..Len(v) : v[k] # w[k]}

\* ----------------------------------------------------------- properties
\* C1: multiple(token, handlers) never yields the same string twice during
\* one call: at every point of consumption the strings yielded so far are
\* pairwise distinct, whatever the handler list.
C1_NoDuplicateFromMultiple == fn = "multiple" => Distinct(out)

\* a finished call of multiple in which the handlers together produced some
\* string more than once
C1_Witness ==
    /\ fn = "multiple"
    /\ pc = "done"
    /\ Len(out) >= 1
    /\ ~Distinct(Concatenated(value, handlers, Len(handlers)))

\* C2: on a token on which no generator raises, common(token) yields
\* exactly the output of dropped_letter, then swapped_letter, then the
\* horizontal proximity_typo, every string after its first occurrence
\* removed, never interleaved; the count is the number of distinct strings.
C2_Reference ==
    Consume("dropped_letter", value).out
        \o Consume("swapped_letter", value).out
        \o Consume("horizontal_proximity_typo", value).out

C2_NoneRaises ==
    /\ Consume("dropped_letter", value).err = "none"
    /\ Consume("swapped_letter", value).err = "none"
    /\ Consume("horizontal_proximity_typo", value).err = "none"

C2_CommonIsDedupedConcatenation ==
    (fn = "multiple" /\ handlers = common /\ C2_NoneRaises) =>
        /\ pc # "raised"
        /\ IsPrefix(out, Dedup(C2_Reference))
        /\ pc = "done" =>
              /\ out = Dedup(C2_Reference)
              /\ Len(out) = Cardinality(Range(C2_Reference))
        /\ (pc = "done" /\ value = cat) =>
              out = << <<"a", "t">>, <<"c", "t">>, <<"c", "a">>,
                       <<"a", "c", "t">>, <<"c", "t", "a">>,
                       <<"x", "a", "t">>, <<"v", "a", "t">>, <<"c", "s", "t">>,
                       <<"c", "a", "r">>, <<"c", "a", "y">> >>

C2_Witness ==
    /\ fn = "multiple"
    /\ handlers = common
    /\ C2_NoneRaises
    /\ pc = "done"
    /\ Len(value) >= 2
    /\ Len(out) >= 3

\* C3: the strings yielded by mix(token) include every string yielded by
\* common(token); on a token on which proximity_typo raises, mix and common
\* yield the same sequence and then raise.
C3_ProximityRaises ==
    \/ Consume("horizontal_proximity_typo", value).err # "none"
    \/ Consume("vertical_proximity_typo", value).err # "none"

C3_MixIsSupersetOfCommon ==
    (fn = "multiple" /\ handlers = mix /\ pc # "suspended") =>
        LET c == ConsumeMultiple(value, common)
        IN  /\ Range(c.out) \subseteq Range(out)
            /\ C3_ProximityRaises =>
                  /\ out = c.out
                  /\ pc = "raised"
                  /\ err = c.err

\* mix has ended normally with more strings than common yields
C3_Witness ==
    /\ fn = "multiple"
    /\ handlers = mix
    /\ pc = "done"
    /\ Len(out) > Len(ConsumeMultiple(value, common).out)
    /\ Len(ConsumeMultiple(value, common).out) >= 1

\* first whitespace position of v (1-based)
FirstSpace(v) == CHOOSE k \in 1..Len(v) : isspace(v[k]) /\ \A i \in 1..(k - 1) : ~isspace(v[i])

Cased(c) == islower(c) \/ isupper(c)

\* C4 as claimed: on a token containing whitespace every generator, consumed
\* to its end, raises the whitespace error; it never ends normally and never
\* ends with another error.
C4_AlwaysWhitespaceError ==
    (fn \in Generators /\ HasSpace(value) /\ pc # "suspended") =>
        pc = "raised" /\ err = "whitespace"

\* C4 amended: on a token containing whitespace each generator ends with the
\* first error its left-to-right scan meets.  dropped_letter raises the
\* whitespace error; swapped_letter raises it when the token has at least
\* two characters and ends normally, with no output, on a one-character
\* token; swapped_casing and proximity_typo raise the whitespace error unless
\* an uncased character (swapped_casing) or a character absent from the
\* layout (proximity_typo) precedes the first whitespace, and then raise the
\* unsupported-character error.
C4_Expected ==
    LET k == FirstSpace(value)
    IN  CASE fn = "dropped_letter" -> "whitespace"
          [] fn = "swapped_letter" -> IF Len(value) >= 2 THEN "whitespace" ELSE "none"
          [] fn = "swapped_casing" ->
                IF \E i \in 1..(k - 1) : ~Cased(value[i]) THEN "unsupported" ELSE "whitespace"
          [] OTHER ->
                IF \E i \in 1..(k - 1) : value[i] \notin DOMAIN QWERTY_HORIZONTAL
                THEN "unsupported" ELSE "whitespace"

C4_FirstErrorOfTheScan ==
    (fn \in Generators /\ HasSpace(value) /\ pc # "suspended") =>
        /\ err = C4_Expected
        /\ (pc = "done") <=> (fn = "swapped_letter" /\ Len(value) = 1)
        /\ (pc = "done") => out = <<>>

\* a generator has raised the whitespace error after yielding something
C4_Witness ==
    /\ fn \in Generators
    /\ HasSpace(value)
    /\ pc = "raised"
    /\ err = "whitespace"
    /\ Len(out) >= 1

\* C5: when a constituent generator of multiple raises, the caller has
\* received the deduplicated output of the earlier generators and of the
\* failing one up to its failure, then receives that same error; afterwards
\* nothing more is yielded and no later generator is run.
C5_Outcome ==
    fn = "multiple" =>
        LET first == UpToFirstRaising(value, handlers, 1, <<>>)
            expected == Dedup(first.out)
        IN  /\ pc = "raised" => first.i > 0
            /\ first.i > 0 =>
                  /\ IsPrefix(out, expected)
                  /\ pc # "done"
                  /\ pc = "raised" =>
                        /\ out = expected
                        /\ err = first.err
                        /\ mul.hidx = first.i - 1

C5_ErrorPropagates ==
    /\ []C5_Outcome
    /\ [][pc = "raised" => /\ out' = out
                           /\ pc' = "raised"
                           /\ err' = err
                           /\ mul' = mul
                           /\ gen' = gen]_vars

\* multiple raised in its second handler after yielding, and the caller has
\* pulled once more
C5_Witness ==
    /\ fn = "multiple"
    /\ pc = "raised"
    /\ mul.hidx >= 1
    /\ Len(out) >= 2
    /\ Len(handlers) > mul.hidx + 1
    /\ last = "StopIteration"

\* C6: on a token of length n without whitespace dropped_letter yields the
\* distinct strings obtained by removing one character, ordered by the
\* smallest position producing each, each once: at most n variants, each of
\* length n-1.
C6_Drops(v, n) == Dedup([i \in 1..n |-> RemoveAt(v, i)])

C6_DroppedLetterOutput ==
    (fn = "dropped_letter" /\ ~HasSpace(value)) =>
        /\ pc # "raised"
        /\ IsPrefix(out, C6_Drops(value, Len(value)))
        /\ pc = "done" =>
              /\ out = C6_Drops(value, Len(value))
              /\ Distinct(out)
              /\ Len(out) <= Len(value)
              /\ \A i \in 1..Len(out) : Len(out[i]) = Len(value) - 1
        /\ (pc = "done" /\ value = cat) =>
              out = << <<"a", "t">>, <<"c", "t">>, <<"c", "a">> >>
        /\ (pc = "done" /\ value = <<"a">>) => out = << <<>> >>

\* dropped_letter has ended on a token with a repeated character, with fewer
\* variants than positions
C6_Witness ==
    /\ fn = "dropped_letter"
    /\ ~HasSpace(value)
    /\ pc = "done"
    /\ Len(out) >= 2
    /\ Len(out) < Len(value)

\* C7: on a token of cased letters, for every position i the token with
\* exactly the character at position i case-inverted is among the strings
\* yielded by swapped_casing.
C7_Inverted(c) == IF islower(c) THEN upper(c) ELSE lower(c)

C7_EveryPositionInverted ==
    (fn = "swapped_casing" /\ pc = "done" /\ \A i \in 1..Len(value) : Cased(value[i])) =>
        \A i \in 1..Len(value) :
            ReplaceAt(value, i, C7_Inverted(value[i])) \in Range(out)

\* C8: on a token of letters of the layout, for every position i and every
\* neighbour k of the character at i, the token with position i replaced by
\* k is yielded by proximity_typo; every yielded string has the token's
\* length and differs from it in exactly one position.
C8_Layout ==
    IF fn = "vertical_proximity_typo" THEN QWERTY_VERTICAL ELSE QWERTY_HORIZONTAL

C8_EveryNeighbourAtEveryPosition ==
    (/\ fn \in {"horizontal_proximity_typo", "vertical_proximity_typo"}
     /\ pc = "done"
     /\ \A i \in 1..Len(value) : value[i] \in DOMAIN C8_Layout) =>
        /\ \A i \in 1..Len(value) :
              \A n \in 1..Len(C8_Layout[value[i]]) :
                  ReplaceAt(value, i, C8_Layout[value[i]][n]) \in Range(out)
        /\ \A n \in 1..Len(out) :
              /\ Len(out[n]) = Len(value)
              /\ Cardinality(Differences(value, out[n])) = 1

\* C9: on a token whose first whitespace is at position k dropped_letter
\* yields the deduplicated drop variants of the positions before k, in
\* order, then raises the whitespace error on the pull that reaches position
\* k, and yields nothing for k or later; before position k is reached no
\* error is observed.
C9_LazyWhitespaceError ==
    (fn = "dropped_letter" /\ HasSpace(value)) =>
        LET k == FirstSpace(value) - 1
            expected == C6_Drops(value, k)
        IN  /\ IsPrefix(out, expected)
            /\ gen.position <= k
            /\ pc # "done"
            /\ gen.position < k => (pc = "suspended" /\ err = "none")
            /\ pc = "raised" =>
                  /\ err = "whitespace"
                  /\ gen.position = k
                  /\ out = expected

\* dropped_letter raised at the whitespace after yielding the variants of
\* the positions before it
C9_Witness ==
    /\ fn = "dropped_letter"
    /\ HasSpace(value)
    /\ pc = "raised"
    /\ FirstSpace(value) >= 3
    /\ Len(out) >= 2

\* C10: no string yielded by dropped_letter, swapped_letter or
\* proximity_typo, and so none yielded by common or mix, equals the input
\* token.
C10_NeverTheTokenItself ==
    (\/ fn \in {"dropped_letter", "swapped_letter",
                "horizontal_proximity_typo", "vertical_proximity_typo"}
     \/ (fn = "multiple" /\ handlers \in {common, mix})) =>
        \A i \in 1..Len(out) : out[i] # value

====
